---- MODULE Spec2Model ----
(***************************************************************************)
(* Index-token contract (src/src/lib.rs): a NEP-141 share ledger plus the  *)
(* issuance (buy_token) and redemption (sell_token) promise chains that    *)
(* talk to the input-token contract and to the exchange venue.             *)
(*                                                                         *)
(* A promise chain a.then(b).then(c) is modelled as the runtime runs it:   *)
(* b is executed when a has completed, WHATEVER a's result was, and the    *)
(* callback c sees only the result of b.                                   *)
(*                                                                         *)
(* u128 is scaled down to WBits bits; the two f64 computations are         *)
(* modelled as exact rational arithmetic followed by truncation.           *)
(***************************************************************************)
EXTENDS Integers, Sequences, FiniteSets, TLC

\* ---------------------------------------------------------------- bounds
WBits == 29
MaxSagas == 2
MaxDirectCalls == 2
MaxReceived == 100000

U128Mod == 2 ^ WBits
BP_DENOM == 10000

\* ------------------------------------------------------------ identities
Contract == "index"
REF_FINANCE_CONTRACT == "ref"
Users == {"alice", "bob"}
Callers == Users \cup {Contract}
Manager == "manager"
Platform == "platform"
Distributor == "distributor"
Owner == "alice"
NoAccount == "-"

BaseTokens == {"usdt", "usdc"}
TokA == "tokA"
TokB == "tokB"

SagaIds == 1 .. MaxSagas

VARIABLES
  accounts,          \* token.accounts: registered account -> share balance
  total_supply,      \* token.total_supply
  token_allocation,  \* constituent -> weight
  token_swap_pool,   \* constituent -> pool id
  input_token,       \* the base asset's contract
  base_price,
  min_investment,
  fee_percent,       \* [manager, platform, distributor] in basis points
  decimals,          \* metadata.decimals
  overflow_checks,   \* build profile: does unchecked u128 arithmetic panic?
  sagas,             \* promise chains, one record per buy_token/sell_token
  direct_calls,      \* number of ft_mint / ft_burn / ft_transfer transactions that went through
  received,          \* base asset each account has sent to the contract (ft_on_transfer)
  ret                \* outcome of the latest method or callback execution

ledger == <<accounts, total_supply, direct_calls>>
config == <<token_allocation, token_swap_pool, input_token, base_price>>
fixed == <<min_investment, fee_percent, decimals, overflow_checks>>
vars == <<accounts, total_supply, token_allocation, token_swap_pool, input_token,
          base_price, min_investment, fee_percent, decimals, overflow_checks,
          sagas, direct_calls, received, ret>>

\* ------------------------------------------------------------- utilities
RECURSIVE Pow10(_)
Pow10(n) == IF n = 0 THEN 1 ELSE 10 * Pow10(n - 1)

\* get_hash_account_U128 / get_hash_account_u64: later entries overwrite
\* earlier ones; the caller has already checked the lengths.
RECURSIVE HashOf(_, _)
HashOf(l1, l2) ==
  IF Len(l1) = 0 THEN << >>
  ELSE LET n == Len(l1)
           front == HashOf(SubSeq(l1, 1, n - 1), SubSeq(l2, 1, n - 1))
       IN [k \in DOMAIN front \cup {l1[n]} |->
             IF k = l1[n] THEN l2[n] ELSE front[k]]

UnevenLists(l1, l2) == Len(l1) # Len(l2)

\* self.ft_balance_of / accounts.get(..).unwrap_or(0)
BalanceOf(accts, a) == IF a \in DOMAIN accts THEN accts[a] ELSE 0

\* What the latest execution was and how it ended: "Ok" or the panic message.
\* `arg` is the call's leading amount argument.
Outcome(op, caller, arg, status) ==
  [op |-> op, caller |-> caller, arg |-> arg, status |-> status]

Panic(msg) == [ok |-> FALSE, err |-> msg, accounts |-> accounts,
               total_supply |-> total_supply]

InRange(x) == x >= 0 /\ x < U128Mod
Wrap(x) == x % U128Mod

\* a * b in u128 when the multiplication is not checked: the product modulo
\* 2^w of a rate a (below 2^15) and an amount b, computed from the two halves
\* of b so that no intermediate value leaves the checker's integers.
WrapMul(a, b) ==
  LET k == 2 ^ 15
      hi == b \div k
      lo == b % k
  IN Wrap(((a * hi) % (U128Mod \div k)) * k + a * lo)

\* Does a * b fit u128?
MulFits(a, b) == a = 0 \/ b <= (U128Mod - 1) \div a

\* ---------------------------------------------------------- share ledger
\* Storage accounting of ft_mint / ft_burn: a new key in token.accounts
\* grows the storage by one record, which the attached deposit must cover.
StorageUsed(a) == IF a \in DOMAIN accounts THEN 0 ELSE 1

Inserted(a, v) == [k \in DOMAIN accounts \cup {a} |-> IF k = a THEN v ELSE accounts[k]]

\* mutant: ft_mint is open to every caller
FtMintGuard_Anyone(predecessor) == TRUE

\* ft_mint(receiver_id, amount) called by `predecessor` with `attached` deposit.
FtMintGuard(predecessor) == Contract = predecessor

FtMint(predecessor, receiver_id, amount, attached) ==
  IF ~FtMintGuard(predecessor) THEN Panic("Only Contract owner can Mint tokens")
  ELSE LET sum == BalanceOf(accounts, receiver_id) + amount
       IN IF ~InRange(sum) /\ overflow_checks THEN Panic("attempt to add with overflow")
          ELSE IF ~InRange(total_supply + amount) THEN Panic("Total supply overflow")
          ELSE IF StorageUsed(receiver_id) > attached THEN Panic("Must attach yoctoNEAR to cover storage")
          ELSE [ok |-> TRUE, err |-> "",
                accounts |-> Inserted(receiver_id, Wrap(sum)),
                total_supply |-> total_supply + amount]

\* ft_burn(account_id, amount) called by `predecessor` with `attached` deposit.
FtBurn(predecessor, account_id, amount, attached) ==
  IF Contract # predecessor THEN Panic("Only Contract owner can Mint tokens")
  ELSE IF ~(amount < total_supply) THEN Panic("You cannot burn all token")
  ELSE LET diff == BalanceOf(accounts, account_id) - amount
       IN IF ~InRange(diff) /\ overflow_checks THEN Panic("attempt to subtract with overflow")
          ELSE IF StorageUsed(account_id) > attached THEN Panic("Must attach yoctoNEAR to cover storage")
          ELSE [ok |-> TRUE, err |-> "",
                accounts |-> Inserted(account_id, Wrap(diff)),
                total_supply |-> total_supply - amount]

\* ft_transfer(receiver_id, amount) of the NEP-141 implementation, called by
\* `sender_id` with `attached` yoctoNEAR: internal_withdraw from the sender,
\* internal_deposit to the receiver, all arithmetic checked.
FtTransfer(sender_id, receiver_id, amount, attached) ==
  IF attached # 1 THEN Panic("Requires attached deposit of exactly 1 yoctoNEAR")
  ELSE IF sender_id = receiver_id THEN Panic("Sender and receiver should be different")
  ELSE IF ~(amount > 0) THEN Panic("The amount should be a positive number")
  ELSE IF sender_id \notin DOMAIN accounts THEN Panic("The account is not registered")
  ELSE IF accounts[sender_id] < amount THEN Panic("The account doesn't have enough balance")
  ELSE IF total_supply < amount THEN Panic("Total supply overflow")
  ELSE IF receiver_id \notin DOMAIN accounts THEN Panic("The account is not registered")
  ELSE IF ~InRange(accounts[receiver_id] + amount) THEN Panic("Balance overflow")
  ELSE [ok |-> TRUE, err |-> "",
        accounts |-> [accounts EXCEPT ![sender_id] = @ - amount,
                                      ![receiver_id] = @ + amount],
        total_supply |-> total_supply]

\* --------------------------------------------------------------- promises
\* One dispatched cross-contract call.  `arg_id` is its account argument
\* (receiver_id of a transfer, token_id of a withdraw); `after` is the index
\* (in the saga's call log) of the promise it is chained behind with .then(),
\* 0 if none.
Call(method, contract, arg_id, amount, actions, memo, after) ==
  [method |-> method, contract |-> contract, arg_id |-> arg_id, amount |-> amount,
   actions |-> actions, memo |-> memo, after |-> after, result |-> "Pending"]

NoArgs == [account |-> NoAccount, index_token |-> 0, amount |-> 0,
           manager_fee |-> 0, platform_fee |-> 0, distributor_fee |-> 0]

IdleSaga == [kind |-> "none", signer |-> NoAccount, calls |-> << >>,
             pc |-> "-", wait |-> 0, args |-> NoArgs, out |-> "-"]

\* Saga records are handed out in order: s is the next unused one.
FreeSlot(s) == sagas[s].kind = "none" /\ \A t \in SagaIds : t < s => sagas[t].kind # "none"

\* The Action struct handed to the venue's swap.
Action(pool_id, token_in, amount_in, token_out, min_amount_out) ==
  [pool_id |-> pool_id, token_in |-> token_in, amount_in |-> amount_in,
   token_out |-> token_out, min_amount_out |-> min_amount_out]

\* ------------------------------------------------------------- buy_token
\* floor(a * p / b) without leaving the checker's integer range.
MulDiv(a, p, b) == (a \div b) * p + ((a % b) * p) \div b

\* (rate * amount) / 10000 in u128
Fee(rate, amount) == WrapMul(rate, amount) \div BP_DENOM

DeductionFee(amount) ==
  Wrap(Wrap(Fee(fee_percent.manager, amount) + Fee(fee_percent.platform, amount))
       + Fee(fee_percent.distributor, amount))

\* mutant: only the manager's fee is deducted
AmountAfterDeduction_ManagerOnly(amount) == Wrap(amount - Fee(fee_percent.manager, amount))

AmountAfterDeduction(amount) == Wrap(amount - DeductionFee(amount))

\* Some unchecked u128 operation of lines 318-323 leaves the u128 range.
BuyArithOverflow(amount) ==
  \/ ~MulFits(fee_percent.manager, amount)
  \/ ~MulFits(fee_percent.platform, amount)
  \/ ~MulFits(fee_percent.distributor, amount)
  \/ ~InRange(Fee(fee_percent.manager, amount) + Fee(fee_percent.platform, amount))
  \/ ~InRange(Wrap(Fee(fee_percent.manager, amount) + Fee(fee_percent.platform, amount))
              + Fee(fee_percent.distributor, amount))
  \/ ~InRange(amount - DeductionFee(amount))

\* (net / base_price * 10^decimals) as u128: the cast saturates, NaN gives 0.
IndexTokenFor(net) ==
  IF base_price = 0 THEN (IF net = 0 THEN 0 ELSE U128Mod - 1)
  ELSE LET q == MulDiv(net, Pow10(decimals), base_price)
       IN IF q < U128Mod THEN q ELSE U128Mod - 1

\* mutant: the assertion only asks for a positive amount
MinInvestmentOk_AnyPositive(amount) == amount > 0

\* the minimum-investment assertion of buy_token
MinInvestmentOk(amount) == amount > min_investment

\* The panic message buy_token ends with, "" when it returns its promise.
BuyTokenPanic(amount, token_list, token_deposits) ==
  IF ~MinInvestmentOk(amount) THEN "Attached amount is less then Minimum amount"
  ELSE IF overflow_checks /\ BuyArithOverflow(amount) THEN "arithmetic overflow"
  ELSE IF UnevenLists(token_list, token_deposits) THEN "Uneven number of token and allocation"
  ELSE IF \E t \in DOMAIN token_allocation :
            t \notin DOMAIN token_swap_pool \/ t \notin DOMAIN HashOf(token_list, token_deposits)
       THEN "called Option::unwrap() on a None value"
  ELSE ""

BuyActionList(token_list, token_deposits) ==
  LET amount_in_deposits == HashOf(token_list, token_deposits)
  IN { Action(token_swap_pool[t], input_token, amount_in_deposits[t], t, token_allocation[t]) :
         t \in DOMAIN token_allocation }

\* the amount buy_token hands back to mint_index as `amount`
MintIndexAmountArg(amount) == amount

BuySaga(signer, amount, token_list, token_deposits) ==
  [kind |-> "buy", signer |-> signer,
   calls |-> << Call("ft_transfer_call", input_token, REF_FINANCE_CONTRACT,
                     AmountAfterDeduction(amount), {}, "", 0),
                Call("swap", REF_FINANCE_CONTRACT, NoAccount, 0,
                     BuyActionList(token_list, token_deposits), "", 1) >>,
   pc |-> "mint_index", wait |-> 2,
   args |-> [account |-> signer,
             index_token |-> IndexTokenFor(AmountAfterDeduction(amount)),
             amount |-> MintIndexAmountArg(amount),
             manager_fee |-> Fee(fee_percent.manager, amount),
             platform_fee |-> Fee(fee_percent.platform, amount),
             distributor_fee |-> Fee(fee_percent.distributor, amount)],
   out |-> "-"]

buy_token(s, signer, amount, token_list, token_deposits) ==
  LET panic == BuyTokenPanic(amount, token_list, token_deposits)
  IN IF panic # ""
     THEN /\ ret' = Outcome("buy_token", signer, amount, panic)
          /\ UNCHANGED <<ledger, config, fixed, received, sagas>>
     ELSE /\ FreeSlot(s)
          /\ sagas' = [sagas EXCEPT ![s] = BuySaga(signer, amount, token_list, token_deposits)]
          /\ ret' = Outcome("buy_token", signer, amount, "Ok")
          /\ UNCHANGED <<ledger, config, fixed, received>>

\* ------------------------------------------------- promise execution
\* mutant: a chained call starts only after a successful call
ChainReleased_OnSuccess(calls, c) ==
  IF c.after = 0 THEN TRUE ELSE calls[c.after].result = "Ok"

\* Has the promise that call c is chained behind let it start?  A call chained
\* with .then() runs once the call before it has completed, with either result.
ChainReleased(calls, c) ==
  IF c.after = 0 THEN TRUE ELSE calls[c.after].result # "Pending"

\* mutant: a receipt is executed as soon as it exists
Runnable_AtOnce(s, i) ==
  /\ i \in DOMAIN sagas[s].calls
  /\ sagas[s].calls[i].result = "Pending"

\* May the i-th call of saga s run now?  The receipts of one saga go to the
\* remote contracts in the order they were created.
Runnable(s, i) ==
  /\ i \in DOMAIN sagas[s].calls
  /\ sagas[s].calls[i].result = "Pending"
  /\ \A j \in 1 .. (i - 1) : sagas[s].calls[j].result # "Pending"
  /\ ChainReleased(sagas[s].calls, sagas[s].calls[i])

ReceiptOutcome == Outcome("receipt", NoAccount, 0, "-")

\* Is call i the one whose result the saga's pending callback receives?
Awaited(s, i) == sagas[s].pc # "-" /\ sagas[s].wait = i

\* The remote contract executes a call nothing of this contract waits for
\* and answers Ok or Err.
PromiseResolves(s, i, res) ==
  /\ Runnable(s, i)
  /\ ~Awaited(s, i)
  /\ sagas' = [sagas EXCEPT ![s].calls[i].result = res]
  /\ ret' = ReceiptOutcome
  /\ UNCHANGED <<ledger, config, fixed, received>>

\* The awaited call has been executed and callback `name` runs with its
\* result as #[callback_result].
CallbackReady(s, name) ==
  /\ sagas[s].pc = name
  /\ Runnable(s, sagas[s].wait)

Resolved(calls, i, res) == [calls EXCEPT ![i].result = res]

\* ------------------------------------------------------------ mint_index
\* mutant: mint_index does not look at the swap's result
MintIndexSwapFailed_Ignored(call_result) == FALSE

MintIndexSwapFailed(call_result) == call_result = "Err"

\* the amount of the compensating withdraw and of the refund transfer
CompensationAmount(args) == args.amount

\* the asset the callbacks address: read from the contract's state when they run
CallbackInputToken == input_token

Compensation(args, n) ==
  << Call("withdraw", REF_FINANCE_CONTRACT, CallbackInputToken, CompensationAmount(args), {}, "", 0),
     Call("ft_transfer", CallbackInputToken, args.account, CompensationAmount(args), {},
          "Refund amount for failed Exchange", n + 1) >>

FeePayouts(args) ==
  << Call("ft_transfer", CallbackInputToken, Manager, args.manager_fee, {}, "manager fee", 0),
     Call("ft_transfer", CallbackInputToken, Platform, args.platform_fee, {}, "platform fee", 0),
     Call("ft_transfer", CallbackInputToken, Distributor, args.distributor_fee, {}, "distributor fee", 0) >>

mint_index(s, call_result) ==
  /\ CallbackReady(s, "mint_index")
  /\ LET a == sagas[s].args
         n == Len(sagas[s].calls)
         done == Resolved(sagas[s].calls, sagas[s].wait, call_result)
     IN IF MintIndexSwapFailed(call_result)
        THEN /\ sagas' = [sagas EXCEPT ![s].calls = done \o Compensation(a, n),
                                       ![s].pc = "-",
                                       ![s].out = "There was a error while making exchange"]
             /\ ret' = Outcome("mint_index", a.account, a.index_token, "Ok")
             /\ UNCHANGED <<ledger, config, fixed, received>>
        ELSE LET m == FtMint(Contract, a.account, a.index_token, 0)
             IN IF ~m.ok
                THEN /\ sagas' = [sagas EXCEPT ![s].calls = done, ![s].pc = "-",
                                               ![s].out = "panic"]
                     /\ ret' = Outcome("mint_index", a.account, a.index_token, m.err)
                     /\ UNCHANGED <<ledger, config, fixed, received>>
                ELSE /\ accounts' = m.accounts
                     /\ total_supply' = m.total_supply
                     /\ UNCHANGED direct_calls
                     /\ sagas' = [sagas EXCEPT ![s].calls = done \o FeePayouts(a),
                                               ![s].pc = "-",
                                               ![s].out = "Minted"]
                     /\ ret' = Outcome("mint_index", a.account, a.index_token, "Ok")
                     /\ UNCHANGED <<config, fixed, received>>

\* ------------------------------------------------------------ sell_token
\* mutant: the requested shares are compared with the total supply
SellBalanceOk_TotalSupply(signer, index_token) == total_supply >= index_token

SellBalanceOk(signer, index_token) == BalanceOf(accounts, signer) >= index_token

SellTokenPanic(signer, index_token) ==
  IF ~SellBalanceOk(signer, index_token) THEN "Insufficient Index token"
  ELSE IF \E t \in DOMAIN token_allocation : t \notin DOMAIN token_swap_pool
       THEN "called Option::unwrap() on a None value"
  ELSE ""

\* (index_token / 10^decimals * token_count) as u128
SellAmountIn(index_token, token_count) ==
  LET q == MulDiv(index_token, token_count, Pow10(decimals))
  IN IF q < U128Mod THEN q ELSE U128Mod - 1

SellActionList(index_token) ==
  { Action(token_swap_pool[t], t, SellAmountIn(index_token, token_allocation[t]), input_token, 1) :
      t \in DOMAIN token_allocation }

SellSaga(signer, index_token, amount_to_return) ==
  [kind |-> "sell", signer |-> signer,
   calls |-> << Call("swap", REF_FINANCE_CONTRACT, NoAccount, 0, SellActionList(index_token), "", 0) >>,
   pc |-> "call_withdraw_for", wait |-> 1,
   args |-> [NoArgs EXCEPT !.account = signer, !.index_token = index_token,
                           !.amount = amount_to_return],
   out |-> "-"]

sell_token(s, signer, index_token, amount_to_return) ==
  LET panic == SellTokenPanic(signer, index_token)
  IN IF panic # ""
     THEN /\ ret' = Outcome("sell_token", signer, index_token, panic)
          /\ UNCHANGED <<ledger, config, fixed, received, sagas>>
     ELSE /\ FreeSlot(s)
          /\ sagas' = [sagas EXCEPT ![s] = SellSaga(signer, index_token, amount_to_return)]
          /\ ret' = Outcome("sell_token", signer, index_token, "Ok")
          /\ UNCHANGED <<ledger, config, fixed, received>>

\* ----------------------------------------------------- call_withdraw_for
\* mutant: call_withdraw_for does not look at the swap's result
WithdrawForSwapFailed_Ignored(call_result) == FALSE

\* assert!(call_result.is_err() == false, ..)
WithdrawForSwapFailed(call_result) == call_result = "Err"

call_withdraw_for(s, call_result) ==
  /\ CallbackReady(s, "call_withdraw_for")
  /\ LET a == sagas[s].args
         n == Len(sagas[s].calls)
         done == Resolved(sagas[s].calls, sagas[s].wait, call_result)
     IN IF WithdrawForSwapFailed(call_result)
        THEN /\ sagas' = [sagas EXCEPT ![s].calls = done, ![s].pc = "-", ![s].out = "panic"]
             /\ ret' = Outcome("call_withdraw_for", a.account, a.index_token,
                               "There is a error:Swap failed")
        ELSE /\ sagas' = [sagas EXCEPT
                  ![s].calls = Append(done, Call("withdraw", REF_FINANCE_CONTRACT, CallbackInputToken,
                                                 a.amount, {}, "", 0)),
                  ![s].pc = "burn_index",
                  ![s].wait = n + 1]
             /\ ret' = Outcome("call_withdraw_for", a.account, a.index_token, "Ok")
  /\ UNCHANGED <<ledger, config, fixed, received>>

\* ------------------------------------------------------------ burn_index
\* mutant: burn_index does not look at the withdrawal's result
BurnIndexWithdrawFailed_Ignored(call_result) == FALSE

BurnIndexWithdrawFailed(call_result) == call_result = "Err"

burn_index(s, call_result) ==
  /\ CallbackReady(s, "burn_index")
  /\ LET a == sagas[s].args
         done == Resolved(sagas[s].calls, sagas[s].wait, call_result)
     IN IF BurnIndexWithdrawFailed(call_result)
        THEN /\ sagas' = [sagas EXCEPT ![s].calls = done, ![s].pc = "-",
                  ![s].out = "There was a error while making exchange on Ref finance"]
             /\ ret' = Outcome("burn_index", a.account, a.index_token, "Ok")
             /\ UNCHANGED <<ledger, config, fixed, received>>
        ELSE LET b == FtBurn(Contract, a.account, a.index_token, 0)
             IN IF ~b.ok
                THEN /\ sagas' = [sagas EXCEPT ![s].calls = done, ![s].pc = "-",
                                               ![s].out = "panic"]
                     /\ ret' = Outcome("burn_index", a.account, a.index_token, b.err)
                     /\ UNCHANGED <<ledger, config, fixed, received>>
                ELSE /\ accounts' = b.accounts
                     /\ total_supply' = b.total_supply
                     /\ UNCHANGED direct_calls
                     /\ sagas' = [sagas EXCEPT
                          ![s].calls = Append(done, Call("ft_transfer", CallbackInputToken,
                                                         sagas[s].signer, a.amount, {}, "", 0)),
                          ![s].pc = "-",
                          ![s].out = "Burned"]
                     /\ ret' = Outcome("burn_index", a.account, a.index_token, "Ok")
                     /\ UNCHANGED <<config, fixed, received>>

\* -------------------------------------------------- administrative surface
\* env::current_account_id() == env::signer_account_id()
IsAdmin(signer) == Contract = signer

update_input_token(signer, new_token) ==
  /\ IF IsAdmin(signer)
     THEN /\ input_token' = new_token
          /\ ret' = Outcome("update_input_token", signer, 0, "Ok")
     ELSE /\ ret' = Outcome("update_input_token", signer, 0,
                            "Only Contract owner can Update input tokens")
          /\ UNCHANGED input_token
  /\ UNCHANGED <<ledger, token_allocation, token_swap_pool, base_price, fixed, received, sagas>>

update_base_price(signer, new_price) ==
  /\ IF IsAdmin(signer)
     THEN /\ base_price' = new_price
          /\ ret' = Outcome("update_base_price", signer, 0, "Ok")
     ELSE /\ ret' = Outcome("update_base_price", signer, 0,
                            "Only Contract owner can Update base price")
          /\ UNCHANGED base_price
  /\ UNCHANGED <<ledger, token_allocation, token_swap_pool, input_token, fixed, received, sagas>>

update_token_swap_pool(signer, token_list, pool_list) ==
  /\ IF ~IsAdmin(signer)
     THEN /\ ret' = Outcome("update_token_swap_pool", signer, 0,
                            "Only Contract owner can Update base price")
          /\ UNCHANGED token_swap_pool
     ELSE IF UnevenLists(token_list, pool_list)
     THEN /\ ret' = Outcome("update_token_swap_pool", signer, 0,
                            "Uneven number of token and allocation")
          /\ UNCHANGED token_swap_pool
     ELSE /\ token_swap_pool' = HashOf(token_list, pool_list)
          /\ ret' = Outcome("update_token_swap_pool", signer, 0, "Ok")
  /\ UNCHANGED <<ledger, token_allocation, input_token, base_price, fixed, received, sagas>>

\* update_token_allocation makes no check of its caller.
AllocationUpdateAllowed(signer) == TRUE

update_token_allocation(signer, token_list, token_alloc) ==
  /\ IF ~AllocationUpdateAllowed(signer)
     THEN /\ ret' = Outcome("update_token_allocation", signer, 0, "Unauthorized")
          /\ UNCHANGED token_allocation
     ELSE IF UnevenLists(token_list, token_alloc)
     THEN /\ ret' = Outcome("update_token_allocation", signer, 0,
                            "Uneven number of token and allocation")
          /\ UNCHANGED token_allocation
     ELSE /\ token_allocation' = HashOf(token_list, token_alloc)
          /\ ret' = Outcome("update_token_allocation", signer, 0, "Ok")
  /\ UNCHANGED <<ledger, token_swap_pool, input_token, base_price, fixed, received, sagas>>

\* ------------------------------------------------ direct ledger calls
ft_mint(predecessor, receiver_id, amount, attached) ==
  /\ LET m == FtMint(predecessor, receiver_id, amount, attached)
     IN /\ m.ok => direct_calls < MaxDirectCalls
        /\ accounts' = m.accounts
        /\ total_supply' = m.total_supply
        /\ direct_calls' = IF m.ok THEN direct_calls + 1 ELSE direct_calls
        /\ ret' = Outcome("ft_mint", predecessor, amount, IF m.ok THEN "Ok" ELSE m.err)
  /\ UNCHANGED <<config, fixed, received, sagas>>

ft_burn(predecessor, account_id, amount, attached) ==
  /\ LET b == FtBurn(predecessor, account_id, amount, attached)
     IN /\ b.ok => direct_calls < MaxDirectCalls
        /\ accounts' = b.accounts
        /\ total_supply' = b.total_supply
        /\ direct_calls' = IF b.ok THEN direct_calls + 1 ELSE direct_calls
        /\ ret' = Outcome("ft_burn", predecessor, amount, IF b.ok THEN "Ok" ELSE b.err)
  /\ UNCHANGED <<config, fixed, received, sagas>>

ft_transfer(sender_id, receiver_id, amount, attached) ==
  /\ LET t == FtTransfer(sender_id, receiver_id, amount, attached)
     IN /\ t.ok => direct_calls < MaxDirectCalls
        /\ accounts' = t.accounts
        /\ total_supply' = t.total_supply
        /\ direct_calls' = IF t.ok THEN direct_calls + 1 ELSE direct_calls
        /\ ret' = Outcome("ft_transfer", sender_id, amount, IF t.ok THEN "Ok" ELSE t.err)
  /\ UNCHANGED <<config, fixed, received, sagas>>

\* storage_deposit of the NEP-145 implementation: registers the caller.
storage_deposit(account_id) ==
  /\ account_id \notin DOMAIN accounts
  /\ accounts' = Inserted(account_id, 0)
  /\ ret' = Outcome("storage_deposit", account_id, 0, "Ok")
  /\ UNCHANGED <<total_supply, direct_calls, config, fixed, received, sagas>>

\* ------------------------------------------------------ ft_on_transfer
\* The input token's contract reports a transfer of `amount` from sender_id
\* to this contract.  The contract keeps the tokens (it returns 0 unused) and
\* writes nothing: `received` is the sender's total as the input token's
\* ledger has it.
ft_on_transfer(sender_id, amount) ==
  /\ received[sender_id] + amount <= MaxReceived
  /\ received' = [received EXCEPT ![sender_id] = @ + amount]
  /\ ret' = Outcome("ft_on_transfer", sender_id, amount, "Ok")
  /\ UNCHANGED <<ledger, config, fixed, sagas>>

\* ------------------------------------------------------------- inputs
InitialSupply == 50
MinInvestment == 10000
Decimals == 2
FeeSchedules ==
  { [manager |-> 100, platform |-> 50, distributor |-> 50] }
GoodSplit == << <<TokA, TokB>>, <<58800, 39200>> >>
BigSplit == << <<TokA, TokB>>, <<100000, 100000>> >>
ShortSplit == << <<TokA>>, <<98000>> >>

\* Fee schedules `new` is given: it stores whatever it is handed.
ValidSchedule(f) == f.manager + f.platform + f.distributor < BP_DENOM
AnySchedules ==
  { [manager |-> 100, platform |-> 50, distributor |-> 50],
    [manager |-> 200, platform |-> 50, distributor |-> 50],
    [manager |-> 5000, platform |-> 3000, distributor |-> 1999],
    [manager |-> 5000, platform |-> 3000, distributor |-> 3000] }

\* ----------------------------------------------------------------- new
\* mutant: the owner is registered but the supply is not deposited
InitialAccounts_RegisteredOnly(owner_id, supply) == [a \in {owner_id} |-> 0]

\* internal_register_account(owner_id); internal_deposit(owner_id, total_supply)
InitialAccounts(owner_id, supply) == [a \in {owner_id} |-> supply]

InitWith(schedules) ==
  /\ accounts = InitialAccounts(Owner, InitialSupply)
  /\ total_supply = InitialSupply
  /\ token_allocation = HashOf(<<TokA, TokB>>, <<60, 40>>)
  /\ token_swap_pool = HashOf(<<TokA, TokB>>, <<1, 2>>)
  /\ input_token = "usdt"
  /\ base_price = 100000
  /\ min_investment = MinInvestment
  /\ fee_percent \in schedules
  /\ decimals = Decimals
  /\ overflow_checks \in BOOLEAN
  /\ sagas = [s \in SagaIds |-> IdleSaga]
  /\ direct_calls = 0
  /\ received = [a \in Users |-> 0]
  /\ ret = Outcome("new", Owner, 0, "Ok")

Init == InitWith(FeeSchedules)
InitFees == InitWith(AnySchedules)

\* ------------------------------------------------- next-state relations
Results == {"Ok", "Err"}
GrossAmounts == {9999, 10000, 100000}
ShareAmounts == {98, 500}
ReturnAmounts == {98000, 98001}

\* The two sagas: the methods that start them, the remote calls they wait
\* for and their callbacks.  New sagas take their record from `slots`.
SagaSteps(slots, buyers, amounts, deposits, sellers, shares) ==
  \/ \E s \in slots, signer \in buyers, amount \in amounts, d \in deposits :
       buy_token(s, signer, amount, d[1], d[2])
  \/ \E s \in slots, signer \in sellers, index_token \in shares, amount \in ReturnAmounts :
       sell_token(s, signer, index_token, amount)
  \/ \E s \in SagaIds, i \in 1 .. 5, res \in Results : PromiseResolves(s, i, res)
  \/ \E s \in SagaIds, res \in Results : mint_index(s, res)
  \/ \E s \in SagaIds, res \in Results : call_withdraw_for(s, res)
  \/ \E s \in SagaIds, res \in Results : burn_index(s, res)

AdminSteps(signers) ==
  \/ \E signer \in signers, t \in BaseTokens : update_input_token(signer, t)
  \/ \E signer \in signers, p \in {100000, 50000} : update_base_price(signer, p)
  \/ \E signer \in signers : update_token_swap_pool(signer, <<TokA, TokB>>, <<1, 2>>)
  \/ \E signer \in signers, u \in { << <<TokA, TokB>>, <<60, 40>> >>, << <<TokA>>, <<100>> >> } :
       update_token_allocation(signer, u[1], u[2])

MintAmounts == {50, U128Mod - 20}
BurnAmounts == {20, 50}
TransferAmounts == {0, 20}

LedgerSteps(predecessors, holders) ==
  \/ \E p \in predecessors, a \in holders, n \in MintAmounts : ft_mint(p, a, n, 0)
  \/ \E p \in predecessors, a \in holders, n \in BurnAmounts : ft_burn(p, a, n, 0)
  \/ \E a \in Users : storage_deposit(a)
  \/ \E a, b \in Users, n \in TransferAmounts : ft_transfer(a, b, n, 1)

\* Issuance and redemption sagas of both users, MaxSagas of them, in any
\* interleaving.
Next == SagaSteps(SagaIds, Users, GrossAmounts, {BigSplit}, Users, ShareAmounts)

Spec == Init /\ [][Next]_vars

\* One saga of alice among the administrative operations.
NextAdmin ==
  \/ SagaSteps({1}, {"alice"}, GrossAmounts, {BigSplit}, {"alice"}, {20})
  \/ AdminSteps({Contract, "bob"})

SpecAdmin == Init /\ [][NextAdmin]_vars

\* One saga among the direct calls of the share ledger.
NextLedger ==
  \/ SagaSteps({1}, {"alice"}, {100000}, {BigSplit}, {"alice"}, {20})
  \/ LedgerSteps({Contract, "bob"}, Users)

SpecLedger == Init /\ [][NextLedger]_vars

\* One saga of alice under every fee schedule `new` accepts, with gross
\* amounts up to the largest u128.
FeeAmounts == {10001, 100000, 200000, 20000000, U128Mod - 1}
NextFees == SagaSteps({1}, {"alice"}, FeeAmounts, {BigSplit}, {"alice"}, {20})

SpecFees == InitFees /\ [][NextFees]_vars

\* One issuance or redemption of alice among the deposits of base asset the
\* two users make into the contract.
DepositSteps ==
  \E a \in Users, n \in {50000, 100000} : ft_on_transfer(a, n)

NextDeposit ==
  \/ SagaSteps({1}, {"alice"}, {100000}, {BigSplit}, {"alice"}, {20})
  \/ DepositSteps

SpecDeposit == Init /\ [][NextDeposit]_vars

\* The sagas of both users under the runtime's guarantee that every receipt
\* it holds is executed: a saga with a runnable call or callback takes a step.
NextLive == SagaSteps(SagaIds, Users, {100000}, {BigSplit}, Users, {20})

SagaProgress(s) ==
  \/ \E i \in 1 .. 5, res \in Results : PromiseResolves(s, i, res)
  \/ \E res \in Results : mint_index(s, res)
  \/ \E res \in Results : call_withdraw_for(s, res)
  \/ \E res \in Results : burn_index(s, res)

SpecLive == Init /\ [][NextLive]_vars /\ \A s \in SagaIds : WF_vars(SagaProgress(s))

\* ================================================================ claims
BelowMinimumMsg == "Attached amount is less then Minimum amount"
InsufficientSharesMsg == "Insufficient Index token"
SwapFailedMsg == "There was a error while making exchange"
WithdrawFailedMsg == "There was a error while making exchange on Ref finance"

IsBuy(s) == sagas[s].kind = "buy"
IsSell(s) == sagas[s].kind = "sell"
LedgerChanges == accounts' # accounts \/ total_supply' # total_supply

\* C1: an issuance saga changes share balances or the total supply only in
\* its mint_index step and only when the swap's result was Ok, and then by
\* minting index_token to the initiator; a saga marked "Minted" has a
\* successful swap.  With a failed swap the saga leaves the ledger alone.
C1_MintOnlyAfterSwapSuccess ==
  [][\A s \in SagaIds :
       /\ (IsBuy(s) /\ sagas[s].out = "Minted") => sagas[s].calls[2].result = "Ok"
       /\ (IsBuy(s) /\ sagas'[s] # sagas[s] /\ LedgerChanges) =>
            /\ sagas[s].pc = "mint_index"
            /\ sagas'[s].calls[2].method = "swap"
            /\ sagas'[s].calls[2].result = "Ok"
            /\ total_supply' = total_supply + sagas[s].args.index_token
            /\ accounts' = Inserted(sagas[s].signer,
                                    BalanceOf(accounts, sagas[s].signer) + sagas[s].args.index_token)
       /\ (IsBuy(s) /\ sagas[s].pc = "mint_index" /\ sagas'[s].pc = "-"
             /\ sagas'[s].calls[2].result = "Err") =>
            /\ ~LedgerChanges
            /\ sagas'[s].out = SwapFailedMsg]_vars

\* One issuance whose swap failed and that minted nothing, next to one whose
\* swap succeeded and that minted.
C1_Witness ==
  \E s, t \in SagaIds :
    /\ IsBuy(s) /\ sagas[s].calls[2].result = "Err" /\ sagas[s].out = SwapFailedMsg
    /\ IsBuy(t) /\ sagas[t].calls[2].result = "Ok" /\ sagas[t].out = "Minted"
    /\ total_supply = InitialSupply + sagas[t].args.index_token

\* C2: after a failed swap the compensation withdraws from the venue, and
\* refunds to the depositor, exactly the amount the saga forwarded to the venue.
C2_RefundEqualsForwarded ==
  \A s \in SagaIds :
    (IsBuy(s) /\ sagas[s].calls[1].result = "Ok" /\ sagas[s].calls[2].result = "Err"
       /\ Len(sagas[s].calls) = 4) =>
      /\ sagas[s].calls[3].method = "withdraw"
      /\ sagas[s].calls[3].amount = sagas[s].calls[1].amount
      /\ sagas[s].calls[4].method = "ft_transfer"
      /\ sagas[s].calls[4].arg_id = sagas[s].signer
      /\ sagas[s].calls[4].amount = sagas[s].calls[1].amount

\* C3: a holder who redeems exactly the shares an issuance minted gets back
\* at most the net amount that issuance forwarded to the venue.
C3_RoundTripBounded ==
  \A b, r \in SagaIds :
    (/\ IsBuy(b) /\ sagas[b].out = "Minted"
     /\ IsSell(r) /\ sagas[r].out = "Burned"
     /\ sagas[r].signer = sagas[b].signer
     /\ sagas[r].args.index_token = sagas[b].args.index_token
     /\ sagas[r].calls[3].result = "Ok") =>
      /\ sagas[r].calls[3].method = "ft_transfer"
      /\ sagas[r].calls[3].arg_id = sagas[r].signer
      /\ sagas[r].calls[3].amount <= sagas[b].calls[1].amount

\* The input token the contract held when saga s started.
StartToken(s) ==
  IF IsBuy(s) THEN sagas[s].calls[1].contract
  ELSE (CHOOSE a \in sagas[s].calls[1].actions : TRUE).token_out

\* C4: every call a saga dispatches addresses the input token that was
\* configured when the saga started, whatever was updated since.
C4_SagaUsesStartConfig ==
  \A s \in SagaIds : \A i \in DOMAIN sagas[s].calls :
    /\ sagas[s].calls[i].method = "withdraw" => sagas[s].calls[i].arg_id = StartToken(s)
    /\ sagas[s].calls[i].method = "ft_transfer" => sagas[s].calls[i].contract = StartToken(s)

AdminOps == {"update_input_token", "update_base_price", "update_token_swap_pool",
             "update_token_allocation"}

\* C5: an administrative operation called by anyone but the administrator
\* fails and leaves the configuration unchanged.
C5_AdminOnly ==
  [][(ret'.op \in AdminOps /\ ret'.caller # Contract) =>
       (ret'.status # "Ok" /\ UNCHANGED config)]_vars

\* C6: when the transfer to the venue failed, the swap is not executed, no
\* share is minted and no compensation is dispatched.
C6_NoSwapAfterFailedTransfer ==
  \A s \in SagaIds :
    (IsBuy(s) /\ sagas[s].calls[1].result = "Err") =>
      /\ sagas[s].calls[2].result = "Pending"
      /\ Len(sagas[s].calls) = 2
      /\ sagas[s].out # "Minted"

\* C7: buy_token does not reject a gross amount that is equal to (or above)
\* the minimum investment as being below the minimum.
C7_MinimumAccepted ==
  (ret.op = "buy_token" /\ ret.arg >= min_investment) => ret.status # BelowMinimumMsg

\* C8: buy_token with a gross amount below the minimum investment panics
\* with the below-minimum message, starts no promise chain and leaves the
\* ledger and the configuration unchanged.
C8_BelowMinimumRejected ==
  [][(ret'.op = "buy_token" /\ ret'.arg < min_investment) =>
       (/\ ret'.status = BelowMinimumMsg
        /\ sagas' = sagas
        /\ UNCHANGED <<ledger, config>>)]_vars

C8_Witness ==
  /\ ret.op = "buy_token" /\ ret.arg < min_investment /\ ret.status = BelowMinimumMsg
  /\ \E s \in SagaIds : IsBuy(s)

\* C9: sell_token for more shares than the caller holds panics with the
\* insufficient-shares message, dispatches no swap and burns nothing.
C9_InsufficientSharesRejected ==
  [][(ret'.op = "sell_token" /\ ret'.arg > BalanceOf(accounts, ret'.caller)) =>
       (/\ ret'.status = InsufficientSharesMsg
        /\ sagas' = sagas
        /\ UNCHANGED ledger)]_vars

C9_Witness ==
  /\ ret.op = "sell_token" /\ ret.status = InsufficientSharesMsg
  /\ ret.arg > BalanceOf(accounts, ret.caller)
  /\ BalanceOf(accounts, ret.caller) > 0

\* C10: a redemption changes the ledger only in a burn_index step whose
\* withdrawal succeeded; when the withdrawal failed, burn_index burns
\* nothing, dispatches no transfer and returns the failure message.
C10_FailedWithdrawKeepsShares ==
  [][\A s \in SagaIds :
       /\ (IsSell(s) /\ sagas[s].pc = "burn_index" /\ sagas'[s].pc = "-"
             /\ sagas'[s].calls[2].result = "Err") =>
            /\ ~LedgerChanges
            /\ Len(sagas'[s].calls) = 2
            /\ sagas'[s].out = WithdrawFailedMsg
       /\ (IsSell(s) /\ sagas'[s] # sagas[s] /\ LedgerChanges) =>
            /\ sagas[s].pc = "burn_index"
            /\ sagas'[s].calls[2].method = "withdraw"
            /\ sagas'[s].calls[2].result = "Ok"]_vars

C10_Witness ==
  \E s \in SagaIds :
    /\ IsSell(s) /\ sagas[s].pc = "-" /\ Len(sagas[s].calls) = 2
    /\ sagas[s].calls[2].method = "withdraw" /\ sagas[s].calls[2].result = "Err"
    /\ sagas[s].out = WithdrawFailedMsg
    /\ BalanceOf(accounts, sagas[s].signer) >= sagas[s].args.index_token

SwapBackFailedMsg == "There is a error:Swap failed"

\* C11: when the swap-back of a redemption failed, call_withdraw_for panics:
\* it dispatches no withdrawal, the ledger is not changed, and the saga is
\* over, so that no share is burned and no base asset is transferred later.
C11_FailedSwapBackStops ==
  [][\A s \in SagaIds :
       /\ (IsSell(s) /\ sagas[s].pc = "call_withdraw_for" /\ sagas'[s].pc # "call_withdraw_for"
             /\ sagas'[s].calls[1].result = "Err") =>
            /\ ~LedgerChanges
            /\ ret'.status = SwapBackFailedMsg
            /\ sagas'[s].pc = "-"
            /\ Len(sagas'[s].calls) = 1
       /\ (IsSell(s) /\ sagas[s].calls[1].result = "Err") =>
            /\ sagas'[s] = sagas[s]
            /\ Len(sagas[s].calls) = 1
            /\ sagas[s].calls[1].method = "swap"]_vars

\* A redemption whose swap-back failed, by a holder who still has the shares,
\* observed after the other saga has moved on.
C11_Witness ==
  \E s, t \in SagaIds :
    /\ IsSell(s) /\ sagas[s].calls[1].result = "Err" /\ sagas[s].pc = "-"
    /\ BalanceOf(accounts, sagas[s].signer) >= sagas[s].args.index_token
    /\ t # s /\ sagas[t].kind # "none" /\ sagas[t].pc = "-"

\* The three fees an issuance saga carries to mint_index, added as integers.
FeeSum(s) ==
  sagas[s].args.manager_fee + sagas[s].args.platform_fee + sagas[s].args.distributor_fee

\* C12: under a valid fee schedule the three fees of every issuance add up
\* to at most the gross amount, and the amount forwarded to the venue is the
\* gross amount minus that sum, exactly.
C12_FeesWithinGross ==
  \A s \in SagaIds :
    (IsBuy(s) /\ ValidSchedule(fee_percent)) =>
      /\ FeeSum(s) <= sagas[s].args.amount
      /\ sagas[s].calls[1].method = "ft_transfer_call"
      /\ sagas[s].calls[1].amount = sagas[s].args.amount - FeeSum(s)

\* An issuance whose fees are all rounded down and leave a net amount of 2.
C12_Witness ==
  \E s \in SagaIds :
    /\ IsBuy(s) /\ ValidSchedule(fee_percent)
    /\ sagas[s].args.amount = 10001
    /\ FeeSum(s) = 9999
    /\ sagas[s].calls[1].amount = 2
    /\ sagas[s].calls[1].result = "Ok"

\* floor(rate * gross / 10000) over the integers.
FloorFee(rate, gross) == (gross \div BP_DENOM) * rate + ((gross % BP_DENOM) * rate) \div BP_DENOM

\* C13: each fee of an issuance is floor(rate * gross / 10000) for its rate;
\* the three transfers mint_index dispatches on commit pay exactly these
\* amounts to manager, platform and distributor; rates (100, 50, 50) and
\* gross 100000 give 1000, 500, 500 and a net amount of 98000.
C13_FeesAreFloored ==
  \A s \in SagaIds :
    IsBuy(s) =>
      LET a == sagas[s].args
          c == sagas[s].calls
      IN /\ a.manager_fee = FloorFee(fee_percent.manager, a.amount)
         /\ a.platform_fee = FloorFee(fee_percent.platform, a.amount)
         /\ a.distributor_fee = FloorFee(fee_percent.distributor, a.amount)
         /\ sagas[s].out = "Minted" =>
              /\ Len(c) = 5
              /\ \A i \in 3 .. 5 : c[i].method = "ft_transfer"
              /\ c[3].arg_id = Manager /\ c[3].amount = a.manager_fee
              /\ c[4].arg_id = Platform /\ c[4].amount = a.platform_fee
              /\ c[5].arg_id = Distributor /\ c[5].amount = a.distributor_fee
         /\ (fee_percent = [manager |-> 100, platform |-> 50, distributor |-> 50]
               /\ a.amount = 100000) =>
              /\ a.manager_fee = 1000 /\ a.platform_fee = 500 /\ a.distributor_fee = 500
              /\ c[1].amount = 98000

\* C15: no issuance is started from a gross amount for which a product
\* rate * gross, the sum of the fees, or gross minus the fees leaves the
\* integer width: buy_token fails before it dispatches anything.
C15_NoWrappedIssuance ==
  \A s \in SagaIds : IsBuy(s) => ~BuyArithOverflow(sagas[s].args.amount)

\* The amount_in values of a swap's actions, added up.
RECURSIVE SumAmountIn(_)
SumAmountIn(actions) ==
  IF actions = {} THEN 0
  ELSE LET a == CHOOSE x \in actions : TRUE
       IN a.amount_in + SumAmountIn(actions \ {a})

\* C14: the swap actions of an issuance spend, in total, at most the net
\* amount the issuance forwarded to the venue.
C14_SplitWithinNet ==
  \A s \in SagaIds :
    IsBuy(s) => SumAmountIn(sagas[s].calls[2].actions) <= sagas[s].calls[1].amount

\* C16: when the compensating withdrawal of an issuance failed, the refund
\* transfer to the depositor is never executed.
C16_RefundOnlyAfterWithdraw ==
  \A s \in SagaIds :
    (/\ IsBuy(s) /\ sagas[s].out = SwapFailedMsg
     /\ sagas[s].calls[3].method = "withdraw" /\ sagas[s].calls[3].result = "Err") =>
      sagas[s].calls[4].result = "Pending"

\* Was call i of saga s executed by this step?
Executed(s, i) ==
  /\ i \in DOMAIN sagas[s].calls
  /\ sagas[s].calls[i].result = "Pending"
  /\ sagas'[s].calls[i].result # "Pending"

\* C17: in an issuance the swap is executed only after the transfer to the
\* venue has completed; shares are minted only in the step that receives the
\* swap's result, after the transfer; the fee payouts are dispatched by that
\* same step, which mints, and are executed after it; and the outcome of a
\* fee payout, failed or not, changes neither the ledger nor the saga's
\* result.
C17_IssuanceOrder ==
  [][\A s \in SagaIds :
       IsBuy(s) =>
         /\ Executed(s, 2) =>
              /\ sagas[s].calls[1].result # "Pending"
              /\ sagas[s].pc = "mint_index" /\ sagas'[s].pc = "-"
         /\ (sagas'[s] # sagas[s] /\ LedgerChanges) =>
              /\ sagas[s].calls[1].result # "Pending"
              /\ Executed(s, 2) /\ sagas'[s].calls[2].result = "Ok"
         /\ (Len(sagas'[s].calls) > Len(sagas[s].calls) /\ sagas'[s].out = "Minted") =>
              /\ Len(sagas[s].calls) = 2 /\ Len(sagas'[s].calls) = 5
              /\ \A i \in 3 .. 5 : sagas'[s].calls[i].result = "Pending"
              /\ total_supply' = total_supply + sagas[s].args.index_token
              /\ BalanceOf(accounts', sagas[s].signer) =
                   BalanceOf(accounts, sagas[s].signer) + sagas[s].args.index_token
         /\ (sagas[s].out = "Minted" /\ \E i \in 3 .. 5 : Executed(s, i)) =>
              /\ ~LedgerChanges
              /\ sagas'[s].out = "Minted"]_vars

\* A committed issuance with a failed and a successful fee payout, the minted
\* shares still in place.
C17_Witness ==
  \E s \in SagaIds :
    /\ IsBuy(s) /\ sagas[s].out = "Minted"
    /\ sagas[s].calls[1].result = "Ok" /\ sagas[s].calls[2].result = "Ok"
    /\ sagas[s].calls[3].result = "Err" /\ sagas[s].calls[5].result = "Ok"
    /\ total_supply = InitialSupply + sagas[s].args.index_token
    /\ BalanceOf(accounts, sagas[s].signer) = InitialSupply + sagas[s].args.index_token

\* C18: a successful ft_mint of amount a adds exactly a to the total supply
\* and to the balance of one account, as integers: no wrapped sum is
\* stored; a failed ft_mint changes neither.
C18_MintExact ==
  [][ret'.op = "ft_mint" =>
       IF ret'.status = "Ok"
       THEN /\ total_supply' = total_supply + ret'.arg
            /\ \E a \in Users :
                 accounts' = Inserted(a, BalanceOf(accounts, a) + ret'.arg)
       ELSE UNCHANGED <<accounts, total_supply>>]_vars

\* C19: the stored fee rates add up to less than 10000 basis points, and the
\* net amount of every issuance is positive and at most its gross amount.
C19_FeeScheduleValid ==
  /\ ValidSchedule(fee_percent)
  /\ \A s \in SagaIds :
       IsBuy(s) => /\ sagas[s].calls[1].amount > 0
                   /\ sagas[s].calls[1].amount <= sagas[s].args.amount

\* C20: right after initialization the owner holds the whole initial supply;
\* a successful ft_transfer of t moves exactly t from the sender to another
\* registered account and leaves the total supply as it was; a failed one
\* changes nothing.
C20_TransferMovesShares ==
  [][/\ ret.op = "new" =>
          /\ total_supply = InitialSupply
          /\ DOMAIN accounts = {Owner}
          /\ accounts[Owner] = InitialSupply
     /\ (ret'.op = "ft_transfer" /\ ret'.status = "Ok") =>
          /\ total_supply' = total_supply
          /\ ret'.caller \in DOMAIN accounts
          /\ ret'.arg > 0 /\ accounts[ret'.caller] >= ret'.arg
          /\ \E r \in DOMAIN accounts \ {ret'.caller} :
               accounts' = [accounts EXCEPT ![ret'.caller] = @ - ret'.arg,
                                            ![r] = @ + ret'.arg]
     /\ (ret'.op = "ft_transfer" /\ ret'.status # "Ok") =>
          UNCHANGED <<accounts, total_supply>>]_vars

\* The owner has transferred 20 of the initial supply to bob.
C20_Witness ==
  /\ ret.op = "ft_transfer" /\ ret.status = "Ok" /\ ret.caller = Owner /\ ret.arg = 20
  /\ accounts = [a \in Users |-> IF a = Owner THEN InitialSupply - 20 ELSE 20]
  /\ total_supply = InitialSupply

NotContractMsg == "Only Contract owner can Mint tokens"

C22_BurnWithinBalance ==
  [][\A s \in SagaIds :
       (IsSell(s) /\ sagas[s].pc = "burn_index" /\ sagas'[s].pc = "-") =>
         LET owned == BalanceOf(accounts, sagas[s].signer)
             shares == sagas[s].args.index_token
         IN /\ owned < shares =>
                 /\ ~LedgerChanges
                 /\ sagas'[s].out # "Burned"
                 /\ Len(sagas'[s].calls) = 2
            /\ LedgerChanges =>
                 /\ owned >= shares
                 /\ BalanceOf(accounts', sagas[s].signer) = owned - shares]_vars

\* The balances of all registered accounts, added up.
RECURSIVE SumBalances(_)
SumBalances(accts) ==
  IF DOMAIN accts = {} THEN 0
  ELSE LET a == CHOOSE x \in DOMAIN accts : TRUE
       IN accts[a] + SumBalances([k \in DOMAIN accts \ {a} |-> accts[k]])

\* C24: the total supply is the sum of all account balances.
C24_SupplyIsSumOfBalances == total_supply = SumBalances(accounts)

\* C23: an issuance is started, forwards base asset to the venue and mints
\* shares only for an initiator who has deposited at least its gross amount
\* into the contract.
C23_SharesOnlyForDeposits ==
  \A s \in SagaIds :
    IsBuy(s) => received[sagas[s].signer] >= sagas[s].args.amount

\* Nothing of saga s is left to run: no callback is pending and every call it
\* dispatched has completed.
Quiescent(s) ==
  /\ sagas[s].pc = "-"
  /\ \A i \in DOMAIN sagas[s].calls : sagas[s].calls[i].result # "Pending"

\* The terminal states of a saga.  Failed: a callback panicked or reported
\* the failure of the call it waited for.
Committed(s) == Quiescent(s) /\ sagas[s].out \in {"Minted", "Burned"}
Compensated(s) ==
  /\ Quiescent(s) /\ sagas[s].out = SwapFailedMsg
  /\ sagas[s].calls[3].result = "Ok" /\ sagas[s].calls[4].result = "Ok"
CompensationFailed(s) ==
  /\ Quiescent(s) /\ sagas[s].out = SwapFailedMsg
  /\ sagas[s].calls[3].result = "Err" \/ sagas[s].calls[4].result = "Err"
Failed(s) == Quiescent(s) /\ sagas[s].out \in {"panic", WithdrawFailedMsg}

Terminal(s) ==
  IF IsBuy(s) THEN Committed(s) \/ Failed(s) \/ Compensated(s) \/ CompensationFailed(s)
  ELSE IsSell(s) /\ (Committed(s) \/ Failed(s))

\* No saga holds two calls of the same method to the same account with the
\* same memo.
NoDuplicateCalls ==
  \A s \in SagaIds : \A i, j \in DOMAIN sagas[s].calls :
    (/\ sagas[s].calls[i].method = sagas[s].calls[j].method
     /\ sagas[s].calls[i].arg_id = sagas[s].calls[j].arg_id
     /\ sagas[s].calls[i].memo = sagas[s].calls[j].memo) => i = j

====
